---- MODULE Spec2Model ----
(***************************************************************************)
(* godepgraph (main.go): the recursive resolution of a root package and    *)
(* its imports into the package store, and the rendering of the store as a *)
(* dot graph.                                                              *)
(*                                                                         *)
(* Import paths are strings.  The metadata provider (go/build's            *)
(* Context.Import, called with the working directory as srcDir) is the     *)
(* function gopath from a requested path to a descriptor or to Fail; the   *)
(* descriptor's ImportPath is the provider's canonical path, which differs *)
(* from the requested path for a package found in a vendor directory.      *)
(* The recursion of processPackage is an explicit stack of frames.         *)
(***************************************************************************)
EXTENDS Integers, Sequences, FiniteSets, TLC

VARIABLES
    gopath,          \* what buildContext.Import returns for each path
    root,            \* args[0]
    ignored,         \* set of exactly ignored paths ("C" and the -i list)
    ignoredPrefixes, \* the -p list
    onlyPrefixes,    \* the -o list
    ignoreStdlib,    \* -s
    delveGoroot,     \* -d
    includeTests,    \* -t
    horizontal,      \* -horizontal
    pkgs,            \* the package store: ImportPath -> descriptor
    ids,             \* the identity allocator: path -> id
    nextId,
    stack,           \* the frames of processPackage, innermost last
    pc,              \* "resolve", "render", "done", "failed", "overflow"
    err,             \* the path named by the error of a failed run
    visited,         \* the keys of pkgs the render loop has iterated over
    out,             \* the statements written to standard output
    queries          \* the paths handed to the provider, in call order

config == <<gopath, root, ignored, ignoredPrefixes, onlyPrefixes,
            ignoreStdlib, delveGoroot, includeTests, horizontal>>
vars == <<gopath, root, ignored, ignoredPrefixes, onlyPrefixes,
          ignoreStdlib, delveGoroot, includeTests, horizontal,
          pkgs, ids, nextId, stack, pc, err, visited, out, queries>>

\* The depth at which the recursion is cut off (the goroutine stack limit).
MaxDepth == 6

Fail == [failed |-> TRUE]
NoErr == ""

Names == {"app", "lib/a", "lib/b", "fmt", "os", "C", "x", "app/vendor/x", "gone"}

\* A build.Package, reduced to the fields main.go reads.
Package(path, goroot, cgo, imports, testImports, xTestImports) ==
    [ImportPath |-> path, Goroot |-> goroot, CgoFiles |-> cgo,
     Imports |-> imports, TestImports |-> testImports,
     XTestImports |-> xTestImports]

EmptyMap == [k \in {} |-> Fail]
MapPut(m, k, v) == [x \in DOMAIN m \cup {k} |-> IF x = k THEN v ELSE m[x]]
Range(s) == {s[i] : i \in DOMAIN s}

(***************************************************************************)
(* The pure functions of main.go.                                          *)
(***************************************************************************)
HasPrefix(s, p) == Len(p) <= Len(s) /\ SubSeq(s, 1, Len(p)) = p

hasPrefixes(s, prefixes) ==
    \E i \in DOMAIN prefixes : HasPrefix(s, prefixes[i])

\* isIgnored without the allow list.
isIgnored_NoAllowList(pkg) ==
    \/ pkg.ImportPath \in ignored
    \/ (pkg.Goroot /\ ignoreStdlib)
    \/ hasPrefixes(pkg.ImportPath, ignoredPrefixes)

\* isIgnored without the list of ignored prefixes.
isIgnored_NoIgnoredPrefixes(pkg) ==
    IF Len(onlyPrefixes) > 0 /\ ~hasPrefixes(pkg.ImportPath, onlyPrefixes)
    THEN TRUE
    ELSE \/ pkg.ImportPath \in ignored
         \/ (pkg.Goroot /\ ignoreStdlib)

isIgnored(pkg) ==
    IF Len(onlyPrefixes) > 0 /\ ~hasPrefixes(pkg.ImportPath, onlyPrefixes)
    THEN TRUE
    ELSE \/ pkg.ImportPath \in ignored
         \/ (pkg.Goroot /\ ignoreStdlib)
         \/ hasPrefixes(pkg.ImportPath, ignoredPrefixes)

allImports(pkg) ==
    IF includeTests
    THEN pkg.Imports \o pkg.TestImports \o pkg.XTestImports
    ELSE pkg.Imports

RECURSIVE Dedup(_, _, _)
Dedup(all, self, found) ==
    IF all = <<>> THEN <<>>
    ELSE LET imp == Head(all) IN
         IF imp = self \/ imp \in found
         THEN Dedup(Tail(all), self, found)
         ELSE <<imp>> \o Dedup(Tail(all), self, found \cup {imp})

\* getImports without the removal of self-references and duplicates.
getImports_Unfiltered(pkg) == allImports(pkg)

getImports(pkg) == Dedup(allImports(pkg), pkg.ImportPath, {})

\* getId without the increment of nextId.
getId_NoIncrement(a, name) ==
    IF name \in DOMAIN a.ids
    THEN [ids |-> a.ids, nextId |-> a.nextId, id |-> a.ids[name]]
    ELSE [ids |-> MapPut(a.ids, name, a.nextId), nextId |-> a.nextId,
          id |-> a.nextId]

\* getId on the allocator state a = [ids, nextId]: the allocator after the
\* call, and the id returned.
getId(a, name) ==
    IF name \in DOMAIN a.ids
    THEN [ids |-> a.ids, nextId |-> a.nextId, id |-> a.ids[name]]
    ELSE [ids |-> MapPut(a.ids, name, a.nextId), nextId |-> a.nextId + 1,
          id |-> a.nextId]

Import(pkgName) == gopath[pkgName]

\* The descriptor stored under the requested path.
StoreKey_Requested(pkgName, pkg) == pkgName

\* The key of the store: pkgs[pkg.ImportPath] = pkg.
StoreKey(pkgName, pkg) == pkg.ImportPath

\* The imports of standard-library packages followed whatever -d says.
Expanded_Always(pkg) == TRUE

\* Whether the imports of pkg are followed and rendered.
Expanded(pkg) == ~(pkg.Goroot /\ ~delveGoroot)

Color(pkg) ==
    IF pkg.Goroot THEN "palegreen"
    ELSE IF pkg.CgoFiles > 0 THEN "darkgoldenrod1"
    ELSE "paleturquoise"

(***************************************************************************)
(* The inputs: the packages below the working directory and the flags.     *)
(***************************************************************************)
AppPackages ==
    { Package("app", FALSE, 0, <<>>, <<>>, <<>>),
      Package("app", FALSE, 0, <<"lib/a", "lib/b">>, <<"lib/b">>, <<"app", "lib/a">>),
      Package("app", FALSE, 1, <<"C", "fmt", "lib/a", "fmt">>, <<>>, <<>>),
      Package("app", FALSE, 0, <<"fmt", "os">>, <<>>, <<>>),
      Package("app", FALSE, 0, <<"x", "lib/a">>, <<>>, <<>>),
      Package("app", FALSE, 0, <<"lib/b", "lib/a", "os">>, <<"fmt">>,
              <<"app", "lib/b", "lib/b">>) }

LibAPackages ==
    { Package("lib/a", FALSE, 0, <<"lib/b">>, <<>>, <<"lib/a">>),
      Package("lib/a", FALSE, 0, <<"x", "fmt">>, <<>>, <<>>),
      Package("lib/a", FALSE, 1, <<"C", "lib/b", "os">>, <<"lib/b">>, <<>>),
      Package("lib/a", FALSE, 0, <<>>, <<>>, <<>>) }

LibBPackages ==
    { Package("lib/b", FALSE, 0, <<>>, <<>>, <<"lib/a">>),
      Package("lib/b", FALSE, 0, <<"fmt">>, <<>>, <<>>),
      Package("lib/b", FALSE, 0, <<"x", "os">>, <<>>, <<"lib/b", "lib/a">>),
      Package("lib/b", FALSE, 0, <<"gone">>, <<>>, <<>>) }

Vendored == Package("app/vendor/x", FALSE, 0, <<>>, <<>>, <<"x">>)

Tree(app, liba, libb) ==
    [n \in Names |->
        CASE n = "app" -> app
          [] n = "lib/a" -> liba
          [] n = "lib/b" -> libb
          [] n = "fmt" -> Package("fmt", TRUE, 0, <<"os">>, <<>>, <<>>)
          [] n = "os" -> Package("os", TRUE, 0, <<>>, <<>>, <<"fmt">>)
          [] n = "x" -> Vendored
          [] n = "app/vendor/x" -> Vendored
          [] OTHER -> Fail]

Trees == {Tree(a, la, lb) : a \in AppPackages, la \in LibAPackages, lb \in LibBPackages}

DefaultTree ==
    Tree(Package("app", FALSE, 0, <<"lib/a", "lib/b">>, <<>>, <<>>),
         Package("lib/a", FALSE, 0, <<"lib/b">>, <<>>, <<>>),
         Package("lib/b", FALSE, 0, <<>>, <<>>, <<>>))

Filters ==
    { [i |-> {}, p |-> <<>>, o |-> <<>>],
      [i |-> {"lib/b"}, p |-> <<>>, o |-> <<>>],
      [i |-> {"app"}, p |-> <<>>, o |-> <<>>],
      [i |-> {}, p |-> <<"lib/">>, o |-> <<>>],
      [i |-> {}, p |-> <<"lib/b", "f">>, o |-> <<>>],
      [i |-> {}, p |-> <<>>, o |-> <<"lib/">>],
      [i |-> {}, p |-> <<>>, o |-> <<"app", "lib/a">>],
      [i |-> {"x", "lib/a"}, p |-> <<"o">>, o |-> <<>>] }

Init ==
    /\ \/ root = "app" /\ gopath \in Trees
       \/ root \in {"fmt", "os", "x", "gone", "C"} /\ gopath = DefaultTree
    /\ \E f \in Filters :
        /\ ignored = {"C"} \cup f.i
        /\ ignoredPrefixes = f.p
        /\ onlyPrefixes = f.o
    /\ ignoreStdlib \in BOOLEAN
    /\ delveGoroot \in BOOLEAN
    /\ includeTests \in BOOLEAN
    /\ horizontal \in BOOLEAN
    /\ pkgs = EmptyMap
    /\ ids = EmptyMap
    /\ nextId = 0
    /\ stack = <<[pkgName |-> root, at |-> "call", imports |-> <<>>]>>
    /\ pc = "resolve"
    /\ err = NoErr
    /\ visited = {}
    /\ out = <<>>
    /\ queries = <<>>

(***************************************************************************)
(* processPackage.                                                         *)
(***************************************************************************)
Top == stack[Len(stack)]
Pop == SubSeq(stack, 1, Len(stack) - 1)
SetTop(f) == [stack EXCEPT ![Len(stack)] = f]

\* The error dropped by the caller: the call returns as if with nil.
Abort_Swallowed(pkgName) ==
    /\ stack' = SubSeq(stack, 1, Len(stack) - 1)
    /\ UNCHANGED <<pc, err>>

\* The error of Import returned through every caller to main, which ends
\* the process in log.Fatal.
Abort(pkgName) ==
    /\ pc' = "failed"
    /\ err' = pkgName
    /\ stack' = <<>>

\* processPackage from its entry up to the loop over the imports.
ProcessPackage ==
    /\ pc = "resolve" /\ stack # <<>> /\ Top.at = "call"
    /\ LET pkgName == Top.pkgName
           pkg == Import(pkgName)
       IN IF pkgName \in ignored
          THEN /\ stack' = Pop
               /\ UNCHANGED <<pkgs, queries, pc, err>>
          ELSE /\ queries' = Append(queries, pkgName)
               /\ IF pkg = Fail
                  THEN /\ Abort(pkgName)
                       /\ UNCHANGED pkgs
                  ELSE IF isIgnored(pkg)
                  THEN /\ stack' = Pop
                       /\ UNCHANGED <<pkgs, pc, err>>
                  ELSE /\ pkgs' = MapPut(pkgs, StoreKey(pkgName, pkg), pkg)
                       /\ stack' = IF Expanded(pkg)
                                   THEN SetTop([pkgName |-> pkgName, at |-> "loop",
                                                imports |-> getImports(pkg)])
                                   ELSE Pop
                       /\ UNCHANGED <<pc, err>>
    /\ UNCHANGED <<config, ids, nextId, visited, out>>

Stored(imp) == imp \in DOMAIN pkgs

\* One iteration of the loop over the imports: the import is skipped when
\* the store has it, and processPackage is called on it otherwise.
ImportLoop ==
    /\ pc = "resolve" /\ stack # <<>> /\ Top.at = "loop" /\ Top.imports # <<>>
    /\ LET imp == Head(Top.imports)
           rest == SetTop([Top EXCEPT !.imports = Tail(Top.imports)])
       IN IF Stored(imp)
          THEN stack' = rest
          ELSE /\ Len(stack) < MaxDepth
               /\ stack' = Append(rest, [pkgName |-> imp, at |-> "call",
                                         imports |-> <<>>])
    /\ UNCHANGED <<config, pkgs, ids, nextId, pc, err, visited, out, queries>>

\* The end of the loop: processPackage returns nil.
Return ==
    /\ pc = "resolve" /\ stack # <<>> /\ Top.at = "loop" /\ Top.imports = <<>>
    /\ stack' = Pop
    /\ UNCHANGED <<config, pkgs, ids, nextId, pc, err, visited, out, queries>>

\* A call at the depth limit: the runtime aborts the process.
StackOverflow ==
    /\ pc = "resolve" /\ stack # <<>> /\ Top.at = "loop" /\ Top.imports # <<>>
    /\ ~Stored(Head(Top.imports))
    /\ Len(stack) >= MaxDepth
    /\ pc' = "overflow"
    /\ UNCHANGED <<config, pkgs, ids, nextId, stack, err, visited, out, queries>>

(***************************************************************************)
(* main, after processPackage has returned nil.                            *)
(***************************************************************************)
PrintHeader ==
    /\ pc = "resolve" /\ stack = <<>>
    /\ out' = IF horizontal THEN <<<<"digraph">>, <<"rankdir">>>>
              ELSE <<<<"digraph">>>>
    /\ pc' = "render"
    /\ UNCHANGED <<config, pkgs, ids, nextId, stack, err, visited, queries>>

\* The loop over getImports(pkg) of the render loop, on the state
\* s = [ids, nextId, out].
RECURSIVE PrintEdges(_, _, _)
PrintEdges(imps, pkgId, s) ==
    IF imps = <<>> THEN s
    ELSE LET imp == Head(imps) IN
         IF ~Stored(imp) \/ isIgnored(pkgs[imp])
         THEN PrintEdges(Tail(imps), pkgId, s)
         ELSE LET g == getId(s, imp) IN
              PrintEdges(Tail(imps), pkgId,
                         [ids |-> g.ids, nextId |-> g.nextId,
                          out |-> Append(s.out, <<"edge", pkgId, g.id>>)])

\* One iteration of the loop over the store, in any order.
RenderPackage ==
    /\ pc = "render"
    /\ \E pkgName \in DOMAIN pkgs \ visited :
        LET pkg == pkgs[pkgName]
            g == getId([ids |-> ids, nextId |-> nextId], pkgName)
            node == [ids |-> g.ids, nextId |-> g.nextId,
                     out |-> Append(out, <<"node", g.id, pkgName, Color(pkg)>>)]
            s == IF isIgnored(pkg)
                 THEN [ids |-> g.ids, nextId |-> g.nextId, out |-> out]
                 ELSE IF ~Expanded(pkg) THEN node
                 ELSE PrintEdges(getImports(pkg), g.id, node)
        IN /\ visited' = visited \cup {pkgName}
           /\ ids' = s.ids
           /\ nextId' = s.nextId
           /\ out' = s.out
    /\ UNCHANGED <<config, pkgs, stack, pc, err, queries>>

PrintFooter ==
    /\ pc = "render" /\ visited = DOMAIN pkgs
    /\ out' = Append(out, <<"close">>)
    /\ pc' = "done"
    /\ UNCHANGED <<config, pkgs, ids, nextId, stack, err, visited, queries>>

Next ==
    \/ ProcessPackage
    \/ ImportLoop
    \/ Return
    \/ StackOverflow
    \/ PrintHeader
    \/ RenderPackage
    \/ PrintFooter

Spec == Init /\ [][Next]_vars

(***************************************************************************)
(* Reading the output.                                                     *)
(***************************************************************************)
NodeStmts == {i \in DOMAIN out : out[i][1] = "node"}
EdgeStmts == {i \in DOMAIN out : out[i][1] = "edge"}
NodeLabels == {out[i][3] : i \in NodeStmts}
NodesLabelled(p) == {i \in NodeStmts : out[i][3] = p}
NodeIds == {out[i][2] : i \in NodeStmts}
\* The edges of the output as pairs of labels of node statements.
EdgePairs ==
    {<<out[n][3], out[m][3]>> : <<n, m>> \in
        {nm \in NodeStmts \X NodeStmts :
            \E e \in EdgeStmts : out[e][2] = out[nm[1]][2] /\ out[e][3] = out[nm[2]][2]}}
Paths(id) == {p \in DOMAIN ids : ids[p] = id}
Count(seq, x) == Cardinality({i \in DOMAIN seq : seq[i] = x})

\* The Filter Engine's contract: a descriptor is excluded when its path is
\* on the exact deny list, matches no prefix of a non-empty allow list, is a
\* standard-library package with standard-library exclusion on, or starts
\* with a denied prefix.
FilterExcludes(pkg) ==
    \/ pkg.ImportPath \in ignored
    \/ /\ onlyPrefixes # <<>>
       /\ \A i \in DOMAIN onlyPrefixes : ~HasPrefix(pkg.ImportPath, onlyPrefixes[i])
    \/ pkg.Goroot /\ ignoreStdlib
    \/ \E i \in DOMAIN ignoredPrefixes : HasPrefix(pkg.ImportPath, ignoredPrefixes[i])

\* The descriptors of the input and the one with a given canonical path.
Descriptors == {gopath[n] : n \in {m \in Names : gopath[m] # Fail}}
PackageAt(p) == CHOOSE d \in Descriptors : d.ImportPath = p

\* A requested path that denotes a package the filter keeps.
Kept(n) == n \notin ignored /\ gopath[n] # Fail /\ ~FilterExcludes(gopath[n])
Expands(pkg) == pkg.Goroot => delveGoroot
Listed(pkg) ==
    Range(pkg.Imports) \cup
    (IF includeTests THEN Range(pkg.TestImports) \cup Range(pkg.XTestImports) ELSE {})

\* The requested paths reachable from the root through kept, expanded
\* packages.
RECURSIVE ReachFrom(_)
ReachFrom(S) ==
    LET more == UNION {Listed(gopath[n]) : n \in {m \in S : Kept(m) /\ Expands(gopath[m])}}
    IN IF more \subseteq S THEN S ELSE ReachFrom(S \cup more)
Reachable == ReachFrom({root})

\* The reference graph: its nodes are the packages the reachable kept
\* paths denote, its edges the imports between them.
RefNodes == {gopath[n].ImportPath : n \in {m \in Reachable : Kept(m)}}
RefEdges ==
    {<<gopath[e[1]].ImportPath, gopath[e[2]].ImportPath>> : e \in
        {nm \in Reachable \X Reachable :
            /\ Kept(nm[1]) /\ Kept(nm[2]) /\ Expands(gopath[nm[1]])
            /\ nm[2] \in Listed(gopath[nm[1]])
            /\ gopath[nm[1]].ImportPath # gopath[nm[2]].ImportPath}}

\* The input has no package whose canonical path differs from the path it
\* is imported by.
NoVendoring == \A n \in Reachable : gopath[n] # Fail => gopath[n].ImportPath = n

(***************************************************************************)
(* C1: the metadata provider is invoked at most once for each import path  *)
(* of a run.  The code queries an import again for every importer when the *)
(* store has no descriptor under that import's path.                       *)
(***************************************************************************)
C1_QueriedAtMostOnce == \A n \in Names : Count(queries, n) <= 1

(***************************************************************************)
(* C2: after a successful run the output has one node per package of the   *)
(* reference graph and no other node, and its edges are exactly the        *)
(* reference graph's.  The code drops the edge to an import whose          *)
(* descriptor is stored under another path than the one it is imported by. *)
(***************************************************************************)
C2_RenderedIsReference ==
    pc = "done" =>
        /\ NodeLabels = RefNodes
        /\ \A p \in RefNodes : Cardinality(NodesLabelled(p)) = 1
        /\ EdgePairs = RefEdges

(***************************************************************************)
(* C3: the output holds at most one edge statement for a pair of packages  *)
(* and no edge from a package to itself, also when a path occurs several   *)
(* times in the import lists of a package or is the package's own path.    *)
(***************************************************************************)
C3_NoDuplicateNoSelfEdge ==
    \A e \in EdgeStmts :
        /\ out[e][2] # out[e][3]
        /\ \A f \in EdgeStmts :
            (out[f][2] = out[e][2] /\ out[f][3] = out[e][3]) => f = e

C3_Witness ==
    /\ pc = "done" /\ includeTests /\ root = "app"
    /\ Count(allImports(gopath["app"]), "app") >= 1
    /\ \E q \in Names :
        /\ Count(allImports(gopath["app"]), q) >= 2
        /\ <<"app", q>> \in EdgePairs

(***************************************************************************)
(* C4.  As claimed: a successful run on a root package with no imports     *)
(* outputs exactly one node and no edge, whatever the filters.             *)
(***************************************************************************)
RootHasNoImports == gopath[root] # Fail /\ Listed(gopath[root]) = {}

C4_OneNodeWhateverTheFilter ==
    (pc = "done" /\ RootHasNoImports) =>
        Cardinality(NodeStmts) = 1 /\ EdgeStmts = {}

(***************************************************************************)
(* C4, amended: a successful run on a root package with no imports outputs *)
(* no edge, and exactly one node, the root's, when the filters keep the    *)
(* root, and no node at all when they exclude it.                          *)
(***************************************************************************)
C4_OneNodeUnlessRootExcluded ==
    (pc = "done" /\ RootHasNoImports) =>
        /\ EdgeStmts = {}
        /\ IF Kept(root)
           THEN Cardinality(NodeStmts) = 1 /\ NodeLabels = {gopath[root].ImportPath}
           ELSE NodeStmts = {}

C4_Witness ==
    /\ pc = "done" /\ RootHasNoImports /\ Kept(root)
    /\ onlyPrefixes # <<>>
    /\ Cardinality(NodeStmts) = 1

(***************************************************************************)
(* C5: no node statement and no endpoint of an edge statement is a package *)
(* the filters exclude; with lib/b on the exact deny list, app importing   *)
(* lib/a and lib/b, and lib/a importing lib/b, the output is the nodes app *)
(* and lib/a and the edge app -> lib/a.                                    *)
(***************************************************************************)
Scenario ==
    /\ root = "app" /\ ~includeTests
    /\ gopath["app"].Imports = <<"lib/a", "lib/b">>
    /\ gopath["lib/a"].Imports = <<"lib/b">>

C5_ExcludedNeverRendered ==
    /\ \A i \in NodeStmts :
        out[i][3] \notin ignored /\ ~FilterExcludes(pkgs[out[i][3]])
    /\ \A e \in EdgeStmts : \A p \in Paths(out[e][2]) \cup Paths(out[e][3]) :
        p \notin ignored /\ ~FilterExcludes(pkgs[p])
    /\ (/\ pc = "done" /\ Scenario
        /\ ignored = {"C", "lib/b"} /\ ignoredPrefixes = <<>> /\ onlyPrefixes = <<>>)
       => /\ NodeLabels = {"app", "lib/a"}
          /\ EdgePairs = {<<"app", "lib/a">>}
          /\ Cardinality(EdgeStmts) = 1

C5_Witness ==
    /\ pc = "done" /\ Scenario
    /\ ignored = {"C", "lib/b"} /\ ignoredPrefixes = <<>> /\ onlyPrefixes = <<>>
    /\ NodeLabels = {"app", "lib/a"}
    /\ "lib/b" \notin DOMAIN ids

(***************************************************************************)
(* C6: when the provider fails for a queried path, the run is in the error *)
(* state with that path reported, the failed query is the last query, and  *)
(* nothing is written to the output; a failed run takes no further step.   *)
(***************************************************************************)
C6_FailureAborts ==
    /\ \A i \in DOMAIN queries :
        gopath[queries[i]] = Fail =>
            pc = "failed" /\ i = Len(queries) /\ err = queries[i]
    /\ pc = "failed" =>
        /\ out = <<>>
        /\ stack = <<>>
        /\ queries # <<>> /\ gopath[queries[Len(queries)]] = Fail
        /\ ~ENABLED Next

C6_Witness ==
    /\ pc = "failed" /\ err = "gone"
    /\ Len(queries) >= 4

(***************************************************************************)
(* C7.  As claimed: with delve root off, a root that imports only          *)
(* standard-library packages gets a node for each of them; no edge starts  *)
(* at a standard-library package; the imports of a standard-library        *)
(* package are never resolved on its behalf.                               *)
(***************************************************************************)
OnlyStdlibImports ==
    /\ gopath[root] # Fail
    /\ Listed(gopath[root]) # {}
    /\ \A n \in Listed(gopath[root]) : gopath[n] # Fail /\ gopath[n].Goroot

NoEdgeFromStdlib ==
    \A e \in EdgeStmts : \A p \in Paths(out[e][2]) : ~pkgs[p].Goroot

NoLoopForStdlib ==
    \A i \in DOMAIN stack :
        stack[i].at = "loop" => ~gopath[stack[i].pkgName].Goroot

C7_StdlibAlwaysNodes ==
    ~delveGoroot =>
        /\ (pc = "done" /\ OnlyStdlibImports) =>
              \A n \in Listed(gopath[root]) : Cardinality(NodesLabelled(n)) = 1
        /\ NoEdgeFromStdlib
        /\ NoLoopForStdlib

(***************************************************************************)
(* C7, amended: with delve root off, a root that is not itself a           *)
(* standard-library package, that the filters keep and that imports only   *)
(* standard-library packages gets a node for each of those the filters     *)
(* keep, and their descriptors are in the store; the provider is queried   *)
(* for nothing but the root and its imports; no edge starts at a           *)
(* standard-library package; the imports of a standard-library package are *)
(* never resolved on its behalf.                                           *)
(***************************************************************************)
C7_StdlibLeaves ==
    ~delveGoroot =>
        /\ (pc = "done" /\ OnlyStdlibImports /\ Kept(root) /\ ~gopath[root].Goroot) =>
              /\ \A n \in Listed(gopath[root]) :
                    IF Kept(n)
                    THEN /\ Cardinality(NodesLabelled(n)) = 1
                         /\ n \in DOMAIN pkgs /\ pkgs[n] = gopath[n]
                    ELSE NodesLabelled(n) = {}
              /\ Range(queries) \subseteq {root} \cup Listed(gopath[root])
        /\ NoEdgeFromStdlib
        /\ NoLoopForStdlib

C7_Witness ==
    /\ pc = "done" /\ ~delveGoroot /\ OnlyStdlibImports /\ root = "app"
    /\ {"fmt", "os"} \subseteq NodeLabels
    /\ pkgs["fmt"].Imports # <<>>
    /\ EdgePairs = {<<"app", "fmt">>, <<"app", "os">>}

(***************************************************************************)
(* C8: the identity mapping is injective, the ids handed out are exactly   *)
(* 0 .. nextId-1, each id requested is either one requested before or the  *)
(* number of distinct ids requested before, and no step changes the id of  *)
(* a path that has one.                                                    *)
(***************************************************************************)
IdsInjective ==
    /\ \A p, q \in DOMAIN ids : ids[p] = ids[q] => p = q
    /\ {ids[p] : p \in DOMAIN ids} = 0 .. (nextId - 1)

HasId(stmt) == stmt[1] \in {"node", "edge"}
\* The ids in the order getId returned them: a node statement prints the id
\* of its package, an edge statement the id then requested for its target.
Requested ==
    LET stmts == SelectSeq(out, HasId)
    IN [i \in DOMAIN stmts |->
            IF stmts[i][1] = "node" THEN stmts[i][2] ELSE stmts[i][3]]

FirstRequestOrder ==
    \A i \in DOMAIN Requested :
        LET before == {Requested[j] : j \in 1 .. (i - 1)}
        IN Requested[i] \in before \/ Requested[i] = Cardinality(before)

IdsStable == \A p \in DOMAIN ids : p \in DOMAIN ids' /\ ids'[p] = ids[p]

C8_IdsInjectiveStable ==
    /\ [](IdsInjective /\ FirstRequestOrder)
    /\ [][IdsStable]_vars

C8_Witness ==
    /\ pc = "done" /\ nextId >= 3
    /\ \E i \in DOMAIN Requested :
        Requested[i] \in {Requested[j] : j \in 1 .. (i - 1)}

(***************************************************************************)
(* C9: every call of the resolver returns without recursing, fails, or     *)
(* adds a path that was not in the store, so that the recursion ends.  The *)
(* code calls itself again on a path whose descriptor is stored under      *)
(* another path, and stores that descriptor again, without end.            *)
(***************************************************************************)
C9_CallsAddNewPaths ==
    [][ProcessPackage =>
          \/ Len(stack') < Len(stack)
          \/ pc' = "failed"
          \/ DOMAIN pkgs' # DOMAIN pkgs]_vars

(***************************************************************************)
(* C10: every descriptor of the store is stored under its own import path  *)
(* and is kept by the filters; the render loop prints one node statement   *)
(* for every descriptor it visits, so that the finished output has one     *)
(* node statement per stored descriptor, and every edge endpoint has one.  *)
(***************************************************************************)
C10_StoreKeyedAndKept ==
    /\ \A k \in DOMAIN pkgs : pkgs[k].ImportPath = k /\ ~FilterExcludes(pkgs[k])
    /\ \A k \in visited : Cardinality(NodesLabelled(k)) = 1
    /\ NodeLabels = visited
    /\ pc = "done" =>
        /\ Cardinality(NodeStmts) = Cardinality(DOMAIN pkgs)
        /\ \A e \in EdgeStmts : {out[e][2], out[e][3]} \subseteq NodeIds

C10_Witness ==
    /\ pc = "done"
    /\ Cardinality(DOMAIN pkgs) >= 3
    /\ "app/vendor/x" \in DOMAIN pkgs
    /\ onlyPrefixes # <<>>
    /\ EdgeStmts # {}

====
